---- MODULE Spec2Model ----
(***************************************************************************)
(* A model of the county_data API (src/api/index.py): the request handler  *)
(* county_data, the validator validate_payload, the query of               *)
(* lookup_county_data against the SQLite store, and the two error          *)
(* handlers; and of the CSV loader (src/csv_to_sqlite.py) that builds the  *)
(* store, run as another process, statement by statement.                  *)
(*                                                                         *)
(* Text is modelled as a sequence of characters, each ASCII character a    *)
(* one-character string and each other character the string of its code   *)
(* point ("U+0663" is the ARABIC-INDIC DIGIT THREE).  A Python str built   *)
(* by an f-string or by an exception is a sequence of fragments.  Measure  *)
(* names, county and state names are TLA+ strings, compared only for       *)
(* equality as the code does.                                              *)
(***************************************************************************)
EXTENDS Integers, Sequences, FiniteSets, TLC

VARIABLES
    dbfile,     \* what lies at DB_PATH: "missing", "present" (a SQLite database),
                \* "corrupt" (a file that is no database), "unopenable"
    store,      \* the database: [has: the names of its tables, chr, zc: the columns and
                \* rows of county_health_rankings and zip_county]
    loads,      \* runs of the CSV loader begun so far
    lpc,        \* the position of the running loader: "idle" (none runs), "drop",
                \* "create", "insert", "commit", "rollback"
    ljob,       \* the table name, columns and rows the running loader read from its CSV file
    lexit,      \* how the last run of the loader ended: "none", "" (returned 0), or the
                \* exception that left main
    locked,     \* whether the running loader's transaction holds the exclusive lock on
                \* the database file
    pc,         \* the position of the request being served in county_data
    body,       \* the JSON body of the request being served
    payload,    \* request.get_json(silent=True): None or the parsed value
    validated,  \* the dict returned by validate_payload
    records,    \* the rows of the query, then the list lookup_county_data returned
    conn,       \* the local `connection` of lookup_county_data (0: none); the frame, or
                \* the traceback of an exception raised in it, keeps it referenced
    openConns,  \* connections opened by sqlite3.connect and not closed
    exc,        \* the exception being propagated to the error handlers
    response,   \* the response returned to the caller
    nOpen,      \* calls of get_connection made for the request being served
    nExec,      \* calls of connection.execute made for the request being served
    served,     \* requests received so far
    seen,       \* what the lookup of the request being served found: the kind of file at
                \* DB_PATH when get_connection looked, and whether the query failed
    qphase,     \* query-engine runs: "none", "calling" (the first lookup is past
                \* get_connection), "first" (it has returned or raised), "recalling"
                \* (the repeated lookup is past get_connection), "second"
    qkey,       \* the (zip, measure) of the lookups of a query-engine run
    qfirst,     \* what the first lookup returned or raised
    qsecond,    \* what the repeated lookup returned or raised
    qchanged,   \* whether a load changed the file or the database since the first lookup
                \* returned or raised
    qlock       \* the loader's lock during a query-engine run: "at" (held at some
                \* moment while the first or the repeated lookup had its connection),
                \* "between" (held at some moment between the two lookups only), "no"

qvars == <<qphase, qkey, qfirst, qsecond, qchanged, qlock>>

\* The database file and the loader's process.
lvars == <<dbfile, store, loads, lpc, ljob, lexit, locked>>

vars == <<lvars, pc, body, payload, validated, records, conn, openConns, exc, response, nOpen,
          nExec, served, seen, qvars>>

\* Bounds of the model.
MaxRequests == 2
MaxRows == 2
MaxMaps == 2
MaxLoads == 1
LongRows == 30

\* ZIP_PATTERN's repetition count {5}.
ZipDigits == 5

None == [t |-> "None"]

----------------------------------------------------------------------------
(* Module-level values of src/api/index.py *)

\* DB_PATH: the resolved path of data.db beside the package.
DB_PATH == "/srv/app/data.db"

ALLOWED_MEASURES ==
    { "Violent crime rate", "Unemployment", "Children in poverty", "Diabetic screening",
      "Mammography screening", "Preventable hospital stays", "Uninsured",
      "Sexually transmitted infections", "Physical inactivity", "Adult obesity",
      "Premature Death", "Daily fine particulate matter" }

AsciiDigits == {"0", "1", "2", "3", "4", "5", "6", "7", "8", "9"}

\* Python's \d on a str pattern: any Unicode decimal digit (category Nd).
UnicodeDigits == AsciiDigits \cup {"U+0663"}

\* Python's $ without re.MULTILINE: at the end of the string, or just before a
\* newline that is the last character.
DollarAt(s, p) == p = Len(s) + 1 \/ (p = Len(s) /\ s[p] = "\n")

\* ZIP_PATTERN.match(s) for ^\d{5}$: five \d from the start, then $.
ZIP_PATTERN_match(s) ==
    /\ Len(s) >= ZipDigits
    /\ \A i \in 1..ZipDigits : s[i] \in UnicodeDigits
    /\ DollarAt(s, ZipDigits + 1)

----------------------------------------------------------------------------
(* JSON values and Python values of a request *)

JNull == [t |-> "null"]
JStr(s) == [t |-> "str", s |-> s]
JNum(n) == [t |-> "num", n |-> n]
JObj(o) == [t |-> "obj", o |-> o]
JArr(a) == [t |-> "arr", a |-> a]

\* dict.get(key): None for an absent key and for a JSON null alike.
Absent == [t |-> "absent"]
DictGet(v) == IF v.t \in {"absent", "null"} THEN None ELSE v

\* The Python type name of a parsed JSON value that is no dict.
PyTypeName(b) ==
    CASE b.t = "arr"  -> "list"
      [] b.t = "num"  -> "int"
      [] b.t = "str"  -> "str"
      [] b.t = "bool" -> "bool"

\* Exceptions: werkzeug HTTPExceptions carry a code and a description; others a message.
\* (code 0 stands for a code of None; response is the Response attached, or None).
BadRequest(description) ==
    [http |-> TRUE, code |-> 400, msg |-> description, response |-> None]
NotFound(description) ==
    [http |-> TRUE, code |-> 404, msg |-> description, response |-> None]
AttributeError(typename) ==
    [http |-> FALSE, code |-> 0, response |-> None,
     msg |-> <<"'", typename, "' object has no attribute 'get'">>]
\* Exceptions raised by the sqlite3 driver, with the driver's message.
DriverError(message) == [http |-> FALSE, code |-> 0, msg |-> message, response |-> None]
NoExc == [http |-> FALSE, code |-> 0, msg |-> <<>>, response |-> None]

MsgNotJson == <<"Request body must be JSON">>
MsgTeapot == <<"Request rejected: I'm a teapot.">>
MsgRequired == <<"Both 'zip' and 'measure_name' are required">>
MsgZip == <<"zip must be a 5-digit string">>
MsgMeasureStr == <<"measure_name must be a string">>
MsgMeasure == <<"measure_name must be one of the documented measures">>
MsgNoMatch == <<"No matching records found">>
MsgDbNotFound == <<"Database not found at ", DB_PATH>>
DriverMessages ==
    {"unable to open database file", "file is not a database",
     "database is locked",
     "no such table: county_health_rankings", "no such table: zip_county",
     "no such column: "}

\* validate_payload: the exception it raises, or the validated dict.
validate_payload(p) ==
    LET zip_code == DictGet(p.zip)
        measure_name == DictGet(p.measure_name)
    IN  IF zip_code = None \/ measure_name = None
          THEN [ok |-> FALSE, exc |-> BadRequest(MsgRequired)]
        ELSE IF zip_code.t # "str" \/ ~ZIP_PATTERN_match(zip_code.s)
          THEN [ok |-> FALSE, exc |-> BadRequest(MsgZip)]
        ELSE IF measure_name.t # "str"
          THEN [ok |-> FALSE, exc |-> BadRequest(MsgMeasureStr)]
        ELSE IF measure_name.s \notin ALLOWED_MEASURES
          THEN [ok |-> FALSE, exc |-> BadRequest(MsgMeasure)]
        ELSE [ok |-> TRUE, zip |-> zip_code.s, measure_name |-> measure_name.s]

----------------------------------------------------------------------------
(* The store: a SQLite database.  src/csv_to_sqlite.py creates every column *)
(* as TEXT and binds every CSV cell as a str, so a stored value is a text;  *)
(* SQL's NULL is kept for the conditions of the query.  Of the two tables   *)
(* the query names, the column names (in their order in the table) and the  *)
(* rows (in rowid order) are kept; of any other table, the name only.       *)

Null == [isnull |-> TRUE]
T(s) == [isnull |-> FALSE, txt |-> s]

Rng(s) == { s[i] : i \in 1..Len(s) }

\* The names of the two tables of the query.
CHR_TABLE ==
    <<"c", "o", "u", "n", "t", "y", "_", "h", "e", "a", "l", "t", "h", "_",
      "r", "a", "n", "k", "i", "n", "g", "s">>
ZC_TABLE == <<"z", "i", "p", "_", "c", "o", "u", "n", "t", "y">>

\* The columns the query names: those of chr in the order of the SELECT list, those of
\* zc in the order of the ON clause.
CHR_COLUMNS ==
    <<"state", "county", "state_code", "county_code", "year_span", "measure_name",
      "measure_id", "numerator", "denominator", "raw_value",
      "confidence_interval_lower_bound", "confidence_interval_upper_bound",
      "data_release_year", "fipscode">>
ZC_COLUMNS == <<"zip", "county_code", "county", "state_abbreviation">>

\* The characters of a column name.
Chars ==
    [ state |->
          <<"s", "t", "a", "t", "e">>,
      county |->
          <<"c", "o", "u", "n", "t", "y">>,
      state_code |->
          <<"s", "t", "a", "t", "e", "_", "c", "o", "d", "e">>,
      county_code |->
          <<"c", "o", "u", "n", "t", "y", "_", "c", "o", "d", "e">>,
      year_span |->
          <<"y", "e", "a", "r", "_", "s", "p", "a", "n">>,
      measure_name |->
          <<"m", "e", "a", "s", "u", "r", "e", "_", "n", "a", "m", "e">>,
      measure_id |->
          <<"m", "e", "a", "s", "u", "r", "e", "_", "i", "d">>,
      numerator |->
          <<"n", "u", "m", "e", "r", "a", "t", "o", "r">>,
      denominator |->
          <<"d", "e", "n", "o", "m", "i", "n", "a", "t", "o", "r">>,
      raw_value |->
          <<"r", "a", "w", "_", "v", "a", "l", "u", "e">>,
      confidence_interval_lower_bound |->
          <<"c", "o", "n", "f", "i", "d", "e", "n", "c", "e", "_", "i", "n", "t", "e", "r",
          "v", "a", "l", "_", "l", "o", "w", "e", "r", "_", "b", "o", "u", "n", "d">>,
      confidence_interval_upper_bound |->
          <<"c", "o", "n", "f", "i", "d", "e", "n", "c", "e", "_", "i", "n", "t", "e", "r",
          "v", "a", "l", "_", "u", "p", "p", "e", "r", "_", "b", "o", "u", "n", "d">>,
      data_release_year |->
          <<"d", "a", "t", "a", "_", "r", "e", "l", "e", "a", "s", "e", "_", "y", "e", "a",
          "r">>,
      fipscode |->
          <<"f", "i", "p", "s", "c", "o", "d", "e">>,
      zip |->
          <<"z", "i", "p">>,
      state_abbreviation |->
          <<"s", "t", "a", "t", "e", "_", "a", "b", "b", "r", "e", "v", "i", "a", "t", "i",
          "o", "n">> ]

EmptyTable == [columns |-> <<>>, rows |-> <<>>]

\* A database without tables.
EmptyStore == [has |-> {}, chr |-> EmptyTable, zc |-> EmptyTable]

\* The value a row of a table holds in the column of a name.
Cell(table, row, c) ==
    row[CHOOSE i \in 1..Len(table.columns) : table.columns[i] = Chars[c]]

\* SQL's `a = b` where it is used as a condition: true only of two non-NULL equal values.
SqlEq(a, b) == ~a.isnull /\ ~b.isnull /\ a.txt = b.txt

\* The code point of a character of a sort key.
CodePoint(c) ==
    CASE c = "-" -> 45
      [] c = "0" -> 48 [] c = "1" -> 49 [] c = "2" -> 50 [] c = "3" -> 51 [] c = "4" -> 52
      [] c = "5" -> 53 [] c = "6" -> 54 [] c = "7" -> 55 [] c = "8" -> 56 [] c = "9" -> 57

\* The BINARY collation: memcmp of the two texts, the shorter first when one is a prefix.
TextLess(a, b) ==
    \E k \in 1..(Len(b)) :
        /\ \A i \in 1..(k - 1) : i <= Len(a) /\ a[i] = b[i]
        /\ k - 1 <= Len(a)
        /\ (k > Len(a) \/ CodePoint(a[k]) < CodePoint(b[k]))

\* SQLite's order of two column values under ORDER BY ... ASC: NULL first, then text.
SqlLess(a, b) ==
    IF a.isnull THEN ~b.isnull
    ELSE IF b.isnull THEN FALSE
    ELSE TextLess(a.txt, b.txt)

\* ORDER BY chr.data_release_year ASC, chr.year_span ASC: r sorts strictly before q.
KeyLess(r, q) ==
    \/ SqlLess(r.data_release_year, q.data_release_year)
    \/ /\ r.data_release_year = q.data_release_year
       /\ SqlLess(r.year_span, q.year_span)

\* The join condition of a county_health_rankings row and a zip_county row.
JoinOn(chr, zc, zip) ==
    /\ SqlEq(zc.zip, T(zip))
    /\ \/ (~chr.fipscode.isnull /\ SqlEq(chr.fipscode, zc.county_code))
       \/ (SqlEq(chr.county, zc.county) /\ SqlEq(chr.state, zc.state_abbreviation))

\* The SELECT list, CHR_COLUMNS, taken of a row of county_health_rankings; sqlite3.Row
\* and dict(row) key the row by these names.
Project(table, row) ==
    [ state |-> Cell(table, row, "state"),
      county |-> Cell(table, row, "county"),
      state_code |-> Cell(table, row, "state_code"),
      county_code |-> Cell(table, row, "county_code"),
      year_span |-> Cell(table, row, "year_span"),
      measure_name |-> Cell(table, row, "measure_name"),
      measure_id |-> Cell(table, row, "measure_id"),
      numerator |-> Cell(table, row, "numerator"),
      denominator |-> Cell(table, row, "denominator"),
      raw_value |-> Cell(table, row, "raw_value"),
      confidence_interval_lower_bound |-> Cell(table, row, "confidence_interval_lower_bound"),
      confidence_interval_upper_bound |-> Cell(table, row, "confidence_interval_upper_bound"),
      data_release_year |-> Cell(table, row, "data_release_year"),
      fipscode |-> Cell(table, row, "fipscode") ]

\* A row of zip_county by the names the ON clause uses, ZC_COLUMNS.
ZcRow(table, row) ==
    [ zip |-> Cell(table, row, "zip"),
      county_code |-> Cell(table, row, "county_code"),
      county |-> Cell(table, row, "county"),
      state_abbreviation |-> Cell(table, row, "state_abbreviation") ]

\* The rows the nested-loop join emits, before DISTINCT and ORDER BY: SQLite scans
\* county_health_rankings in rowid order and, for each row of the measure, the
\* zip_county rows of the zip in rowid order; the SELECT list is taken of chr.
JoinRows(st, zip, measure) ==
    LET n == Len(st.chr.rows)
        m == Len(st.zc.rows)
        pairs == [k \in 1..(n * m) |-> <<((k - 1) \div m) + 1, ((k - 1) % m) + 1>>]
        Hit(ij) ==
            LET chr == Project(st.chr, st.chr.rows[ij[1]])
                zc == ZcRow(st.zc, st.zc.rows[ij[2]])
            IN  SqlEq(chr.measure_name, T(measure)) /\ JoinOn(chr, zc, zip)
        hits == SelectSeq(pairs, Hit)
        RECURSIVE Emit(_)
        Emit(k) ==
            IF k = 0 THEN <<>>
            ELSE Append(Emit(k - 1), Project(st.chr, st.chr.rows[hits[k][1]]))
    IN  Emit(Len(hits))

\* A query without DISTINCT: every joined row is emitted.
DistinctDropped(rows) == rows

\* SELECT DISTINCT: a row is emitted unless an equal row was emitted before it.
RECURSIVE Distinct(_)
Distinct(rows) ==
    IF rows = <<>> THEN <<>>
    ELSE LET emitted == Distinct(SubSeq(rows, 1, Len(rows) - 1))
             r == rows[Len(rows)]
         IN  IF \E j \in 1..Len(emitted) : emitted[j] = r THEN emitted ELSE Append(emitted, r)

\* A query without ORDER BY: the rows come out in the order the join found them.
OrderByDropped(rows) == rows

\* The sorter of ORDER BY: the rows in key order, rows of equal keys in the order
\* they were inserted.
RECURSIVE OrderBy(_)
OrderBy(rows) ==
    IF rows = <<>> THEN <<>>
    ELSE LET sorted == OrderBy(SubSeq(rows, 1, Len(rows) - 1))
             r == rows[Len(rows)]
             before == SelectSeq(sorted, LAMBDA q : ~KeyLess(r, q))
             after == SelectSeq(sorted, LAMBDA q : KeyLess(r, q))
         IN  before \o <<r>> \o after

\* A lookup that collects its rows in a list all calls share (a mutable default
\* argument): the repeated call appends to what the first one returned.
FetchAllAccumulating(zip, measure) ==
    (IF qfirst.ok THEN qfirst.rows ELSE <<>>) \o OrderBy(Distinct(JoinRows(store, zip, measure)))

\* connection.execute(query, {"zip": ..., "measure": ...}).fetchall()
FetchAll(zip, measure) == OrderBy(Distinct(JoinRows(store, zip, measure)))

----------------------------------------------------------------------------
(* lookup_county_data and get_connection *)

\* get_connection: the exception it raises, or a connection.
get_connection ==
    IF dbfile = "missing" THEN [ok |-> FALSE, exc |-> NotFound(MsgDbNotFound)]
    ELSE IF dbfile = "unopenable"
      THEN [ok |-> FALSE, exc |-> DriverError(<<"unable to open database file">>)]
    ELSE [ok |-> TRUE]

\* The column references of the query in the order SQLite resolves them.
ColumnRefs ==
    [k \in 1..(Len(CHR_COLUMNS) + Len(ZC_COLUMNS)) |->
        IF k <= Len(CHR_COLUMNS)
          THEN [alias |-> "chr", column |-> CHR_COLUMNS[k]]
          ELSE [alias |-> "zc", column |-> ZC_COLUMNS[k - Len(CHR_COLUMNS)]]]

Resolves(st, ref) ==
    LET columns == (IF ref.alias = "chr" THEN st.chr ELSE st.zc).columns
    IN  \E i \in 1..Len(columns) : columns[i] = Chars[ref.column]

\* The driver's failure on the database, if any: a table of the FROM clause that is
\* missing (the first one is reported), else the first column reference that does not
\* resolve.
PrepareError(st) ==
    IF CHR_TABLE \notin st.has THEN <<"no such table: county_health_rankings">>
    ELSE IF ZC_TABLE \notin st.has THEN <<"no such table: zip_county">>
    ELSE IF \E k \in DOMAIN ColumnRefs : ~Resolves(st, ColumnRefs[k])
      THEN LET k == CHOOSE i \in DOMAIN ColumnRefs :
                        /\ ~Resolves(st, ColumnRefs[i])
                        /\ \A j \in 1..(i - 1) : Resolves(st, ColumnRefs[j])
           IN  <<"no such column: ", ColumnRefs[k].alias, ".", ColumnRefs[k].column>>
    ELSE <<>>

\* A lookup that catches the driver's exceptions and returns no rows.
execute_fetchall_swallowing(zip, measure) ==
    IF dbfile = "corrupt" \/ locked \/ PrepareError(store) # <<>>
      THEN [ok |-> TRUE, rows |-> <<>>]
    ELSE [ok |-> TRUE, rows |-> FetchAll(zip, measure)]

\* connection.execute(...).fetchall() inside the with block, when it stops waiting:
\* the driver's exception on a file that is no database, on a database a writer has
\* kept locked for the connection's timeout (five seconds), or on a database the
\* query cannot be prepared on; the rows otherwise.  While a writer holds the lock
\* the call waits: the writer's steps come first, or the timeout does.
execute_fetchall(zip, measure) ==
    IF dbfile = "corrupt" THEN [ok |-> FALSE, exc |-> DriverError(<<"file is not a database">>)]
    ELSE IF locked THEN [ok |-> FALSE, exc |-> DriverError(<<"database is locked">>)]
    ELSE IF PrepareError(store) # <<>>
      THEN [ok |-> FALSE, exc |-> DriverError(PrepareError(store))]
    ELSE [ok |-> TRUE, rows |-> FetchAll(zip, measure)]

\* sqlite3.Connection.__exit__: commits or rolls back; the connection stays open.
ConnectionExit(open, c) == open

----------------------------------------------------------------------------
(* The error handlers *)

ErrorBody(description) == JObj([error |-> JStr(description)])

\* HTTPStatus(code).phrase; HTTPStatus raises for a number that is no status.
HTTPStatusPhrase(code) ==
    CASE code = 100 -> "Continue"
      [] code = 101 -> "Switching Protocols"
      [] code = 102 -> "Processing"
      [] code = 103 -> "Early Hints"
      [] code = 200 -> "OK"
      [] code = 201 -> "Created"
      [] code = 202 -> "Accepted"
      [] code = 203 -> "Non-Authoritative Information"
      [] code = 204 -> "No Content"
      [] code = 205 -> "Reset Content"
      [] code = 206 -> "Partial Content"
      [] code = 207 -> "Multi-Status"
      [] code = 208 -> "Already Reported"
      [] code = 226 -> "IM Used"
      [] code = 300 -> "Multiple Choices"
      [] code = 301 -> "Moved Permanently"
      [] code = 302 -> "Found"
      [] code = 303 -> "See Other"
      [] code = 304 -> "Not Modified"
      [] code = 305 -> "Use Proxy"
      [] code = 307 -> "Temporary Redirect"
      [] code = 308 -> "Permanent Redirect"
      [] code = 400 -> "Bad Request"
      [] code = 401 -> "Unauthorized"
      [] code = 402 -> "Payment Required"
      [] code = 403 -> "Forbidden"
      [] code = 404 -> "Not Found"
      [] code = 405 -> "Method Not Allowed"
      [] code = 406 -> "Not Acceptable"
      [] code = 407 -> "Proxy Authentication Required"
      [] code = 408 -> "Request Timeout"
      [] code = 409 -> "Conflict"
      [] code = 410 -> "Gone"
      [] code = 411 -> "Length Required"
      [] code = 412 -> "Precondition Failed"
      [] code = 413 -> "Request Entity Too Large"
      [] code = 414 -> "Request-URI Too Long"
      [] code = 415 -> "Unsupported Media Type"
      [] code = 416 -> "Requested Range Not Satisfiable"
      [] code = 417 -> "Expectation Failed"
      [] code = 418 -> "I'm a Teapot"
      [] code = 421 -> "Misdirected Request"
      [] code = 422 -> "Unprocessable Entity"
      [] code = 423 -> "Locked"
      [] code = 424 -> "Failed Dependency"
      [] code = 425 -> "Too Early"
      [] code = 426 -> "Upgrade Required"
      [] code = 428 -> "Precondition Required"
      [] code = 429 -> "Too Many Requests"
      [] code = 431 -> "Request Header Fields Too Large"
      [] code = 451 -> "Unavailable For Legal Reasons"
      [] code = 500 -> "Internal Server Error"
      [] code = 501 -> "Not Implemented"
      [] code = 502 -> "Bad Gateway"
      [] code = 503 -> "Service Unavailable"
      [] code = 504 -> "Gateway Timeout"
      [] code = 505 -> "HTTP Version Not Supported"
      [] code = 506 -> "Variant Also Negotiates"
      [] code = 507 -> "Insufficient Storage"
      [] code = 508 -> "Loop Detected"
      [] code = 510 -> "Not Extended"
      [] code = 511 -> "Network Authentication Required"

\* handle_http_exception: (error.description or the status phrase) if error.code else
\* "Unknown error".  Without a response attached to the exception the body goes out
\* under error.code or 500; a response attached to it is reused, with its own status
\* and the same body.
handle_http_exception(error) ==
    LET description ==
            IF error.code # 0
              THEN (IF error.msg # <<>> THEN error.msg ELSE <<HTTPStatusPhrase(error.code)>>)
              ELSE <<"Unknown error">>
    IN  IF error.response = None
          THEN [status |-> IF error.code # 0 THEN error.code ELSE 500,
                body |-> ErrorBody(description)]
          ELSE [status |-> error.response.status, body |-> ErrorBody(description)]

\* A catch-all handler that returns the message itself as the body.
handle_unexpected_exception_bare(error) ==
    [status |-> 500, body |-> JStr(IF error.msg # <<>> THEN error.msg ELSE <<"Internal server error">>)]

\* handle_unexpected_exception: str(error), or the fixed text when that is empty.
handle_unexpected_exception(error) ==
    [status |-> 500,
     body |-> ErrorBody(IF error.msg # <<>> THEN error.msg ELSE <<"Internal server error">>)]

\* Flask picks the handler registered for the most specific class of the exception.
HandleError(error) ==
    IF error.http THEN handle_http_exception(error) ELSE handle_unexpected_exception(error)

\* The teapot branch of county_data.
TeapotResponse == [status |-> 418, body |-> ErrorBody(MsgTeapot)]

\* request.get_json(silent=True): None for a body that does not parse and for JSON null.
get_json(b) == IF b.t \in {"invalid", "null"} THEN None ELSE b

----------------------------------------------------------------------------
(* The CSV loader: src/csv_to_sqlite.py *)

\* The characters str.strip() removes, those str.isspace() holds of: the ASCII controls
\* 9 to 13 and 28 to 31 (written as the characters themselves), the space, and the
\* Unicode spaces.
Whitespace ==
    {"\t", "\n", "", "\f", "\r", "", "", "", "", " ", "U+0085", "U+00A0", "U+1680",
     "U+2000", "U+2001", "U+2002", "U+2003", "U+2004", "U+2005", "U+2006", "U+2007",
     "U+2008", "U+2009", "U+200A", "U+2028", "U+2029", "U+202F", "U+205F", "U+3000"}

\* The byte-order mark, U+FEFF.
BOM == "U+FEFF"

LowerLetters ==
    {"a", "b", "c", "d", "e", "f", "g", "h", "i", "j", "k", "l", "m", "n", "o", "p", "q",
     "r", "s", "t", "u", "v", "w", "x", "y", "z"}

\* The lower-case letter of each ASCII upper-case letter.
LowerOf ==
    [ A |-> "a", B |-> "b", C |-> "c", D |-> "d", E |-> "e", F |-> "f", G |-> "g",
      H |-> "h", I |-> "i", J |-> "j", K |-> "k", L |-> "l", M |-> "m", N |-> "n",
      O |-> "o", P |-> "p", Q |-> "q", R |-> "r", S |-> "s", T |-> "t", U |-> "u",
      V |-> "v", W |-> "w", X |-> "x", Y |-> "y", Z |-> "z" ]

\* The characters of the model's texts that str.lower() leaves as they are: lower-case
\* letters (U+00E9 is e with acute), digits, marks (U+0307 is the combining dot above),
\* punctuation, whitespace.
Uncased ==
    LowerLetters \cup AsciiDigits \cup Whitespace
    \cup {"_", "-", "+", ".", ",", "'", "/", "(", ")", "$", "#", BOM, "U+00E9", "U+0307", "U+0663"}

\* str.lower() of one character, a text of one or two characters: the lower-case letter
\* of an upper-case one (U+00C9 is E with acute; the Kelvin sign U+212A lowers to the
\* ASCII k; the dotted capital I, U+0130, to i and a combining dot), any uncased
\* character itself.  It is defined on the characters named here only.
Lower(c) ==
    CASE c \in DOMAIN LowerOf -> <<LowerOf[c]>>
      [] c = "U+00C9" -> <<"U+00E9">>
      [] c = "U+212A" -> <<"k">>
      [] c = "U+0130" -> <<"i", "U+0307">>
      [] c \in Uncased -> <<c>>

\* str.lower()
RECURSIVE lower(_)
lower(s) == IF s = <<>> THEN <<>> ELSE Lower(s[1]) \o lower(Tail(s))

RECURSIVE lstrip(_, _)
lstrip(s, chars) == IF s # <<>> /\ s[1] \in chars THEN lstrip(Tail(s), chars) ELSE s

RECURSIVE rstrip(_, _)
rstrip(s, chars) ==
    IF s # <<>> /\ s[Len(s)] \in chars THEN rstrip(SubSeq(s, 1, Len(s) - 1), chars) ELSE s

\* value.strip().lstrip(BOM).lower()
normalize_identifier(value) ==
    lower(lstrip(rstrip(lstrip(value, Whitespace), Whitespace), {BOM}))

\* VALID_IDENTIFIER.match(value) for [a-z_][a-z0-9_]*$: a first character, then k - 1
\* more, then $, which holds only at the end and before a last newline.
VALID_IDENTIFIER_match(value) ==
    \E k \in {Len(value) - 1, Len(value)} :
        /\ k >= 1
        /\ DollarAt(value, k + 1)
        /\ value[1] \in LowerLetters \cup {"_"}
        /\ \A i \in 2..k : value[i] \in LowerLetters \cup AsciiDigits \cup {"_"}

\* validate_identifier: the cleaned identifier, or the ValueError.
validate_identifier(raw_value) ==
    LET value == normalize_identifier(raw_value)
    IN  IF value = <<>> THEN [ok |-> FALSE, raises |-> "ValueError"]
        ELSE IF ~VALID_IDENTIFIER_match(value) THEN [ok |-> FALSE, raises |-> "ValueError"]
        ELSE [ok |-> TRUE, value |-> value]

\* The identifiers VALID_IDENTIFIER admits that SQLite reads as keywords where a table
\* or column name stands: the statement naming one is a syntax error.
ReservedWords ==
    { <<"a", "d", "d">>, <<"a", "l", "l">>, <<"a", "l", "t", "e", "r">>, <<"a", "n", "d">>,
      <<"a", "s">>, <<"a", "u", "t", "o", "i", "n", "c", "r", "e", "m", "e", "n", "t">>,
      <<"b", "e", "t", "w", "e", "e", "n">>, <<"c", "a", "s", "e">>,
      <<"c", "h", "e", "c", "k">>, <<"c", "o", "l", "l", "a", "t", "e">>,
      <<"c", "o", "m", "m", "i", "t">>, <<"c", "o", "n", "s", "t", "r", "a", "i", "n", "t">>,
      <<"c", "r", "e", "a", "t", "e">>, <<"d", "e", "f", "a", "u", "l", "t">>,
      <<"d", "e", "f", "e", "r", "r", "a", "b", "l", "e">>, <<"d", "e", "l", "e", "t", "e">>,
      <<"d", "i", "s", "t", "i", "n", "c", "t">>, <<"d", "r", "o", "p">>,
      <<"e", "l", "s", "e">>, <<"e", "s", "c", "a", "p", "e">>,
      <<"e", "x", "c", "e", "p", "t">>, <<"e", "x", "i", "s", "t", "s">>,
      <<"f", "o", "r", "e", "i", "g", "n">>, <<"f", "r", "o", "m">>,
      <<"g", "r", "o", "u", "p">>, <<"h", "a", "v", "i", "n", "g">>, <<"i", "n">>,
      <<"i", "n", "d", "e", "x">>, <<"i", "n", "s", "e", "r", "t">>,
      <<"i", "n", "t", "e", "r", "s", "e", "c", "t">>, <<"i", "n", "t", "o">>, <<"i", "s">>,
      <<"i", "s", "n", "u", "l", "l">>, <<"j", "o", "i", "n">>, <<"l", "i", "m", "i", "t">>,
      <<"n", "o", "t">>, <<"n", "o", "t", "h", "i", "n", "g">>,
      <<"n", "o", "t", "n", "u", "l", "l">>, <<"n", "u", "l", "l">>, <<"o", "n">>,
      <<"o", "r">>, <<"o", "r", "d", "e", "r">>, <<"p", "r", "i", "m", "a", "r", "y">>,
      <<"r", "e", "f", "e", "r", "e", "n", "c", "e", "s">>,
      <<"r", "e", "t", "u", "r", "n", "i", "n", "g">>, <<"s", "e", "l", "e", "c", "t">>,
      <<"s", "e", "t">>, <<"t", "a", "b", "l", "e">>, <<"t", "h", "e", "n">>, <<"t", "o">>,
      <<"t", "r", "a", "n", "s", "a", "c", "t", "i", "o", "n">>, <<"u", "n", "i", "o", "n">>,
      <<"u", "n", "i", "q", "u", "e">>, <<"u", "p", "d", "a", "t", "e">>,
      <<"u", "s", "i", "n", "g">>, <<"v", "a", "l", "u", "e", "s">>, <<"w", "h", "e", "n">>,
      <<"w", "h", "e", "r", "e">> }

\* CREATE TABLE if ... reads IF as the start of IF NOT EXISTS.
CreateReservedWords == ReservedWords \cup { <<"i", "f">> }

\* The schema tables, which DROP TABLE refuses to drop.
SchemaTables ==
    { <<"s", "q", "l", "i", "t", "e", "_", "m", "a", "s", "t", "e", "r">>,
      <<"s", "q", "l", "i", "t", "e", "_", "s", "c", "h", "e", "m", "a">>,
      <<"s", "q", "l", "i", "t", "e", "_", "t", "e", "m", "p", "_", "m", "a", "s", "t", "e", "r">>,
      <<"s", "q", "l", "i", "t", "e", "_", "t", "e", "m", "p", "_", "s", "c", "h", "e", "m", "a">> }

\* Names SQLite reserves for internal use, which CREATE TABLE refuses: sqlite_...
ReservedPrefix == <<"s", "q", "l", "i", "t", "e", "_">>
ReservedName(name) ==
    Len(name) >= Len(ReservedPrefix) /\ SubSeq(name, 1, Len(ReservedPrefix)) = ReservedPrefix

\* The database with a table named table_name holding a content (the content of a
\* table the query does not name is not kept).
WithTable(st, table_name, table) ==
    [has |-> st.has \cup {table_name},
     chr |-> IF table_name = CHR_TABLE THEN table ELSE st.chr,
     zc |-> IF table_name = ZC_TABLE THEN table ELSE st.zc]

\* The database without the table named table_name.
DropTable(st, table_name) ==
    [has |-> st.has \ {table_name},
     chr |-> IF table_name = CHR_TABLE THEN EmptyTable ELSE st.chr,
     zc |-> IF table_name = ZC_TABLE THEN EmptyTable ELSE st.zc]

\* sqlite3.connect(db_path): fails on a path that cannot be opened, creates a database
\* without tables where no file is; the content of the file is not read yet.
sqlite3_connect(db, st) ==
    IF db = "unopenable"
      THEN [ok |-> FALSE, raises |-> "OperationalError", dbfile |-> db, store |-> st]
    ELSE IF db = "missing" THEN [ok |-> TRUE, dbfile |-> "present", store |-> EmptyStore]
    ELSE [ok |-> TRUE, dbfile |-> db, store |-> st]

\* The first statement of create_table's script, DROP TABLE IF EXISTS table_name, which
\* is committed as it runs: a syntax error on a keyword, the driver's error on a file
\* that is no database, a refusal for a schema table.
drop_sql(db, st, table_name) ==
    IF table_name \in ReservedWords
      THEN [ok |-> FALSE, raises |-> "OperationalError", store |-> st]
    ELSE IF db = "corrupt" THEN [ok |-> FALSE, raises |-> "DatabaseError", store |-> st]
    ELSE IF table_name \in SchemaTables
      THEN [ok |-> FALSE, raises |-> "OperationalError", store |-> st]
    ELSE [ok |-> TRUE, store |-> DropTable(st, table_name)]

\* The second statement, CREATE TABLE table_name (<column> TEXT, ...), committed as it
\* runs: it fails on a reserved table name, on an empty column list, on a column that
\* is a keyword and on a column name given twice.
create_sql(st, table_name, columns) ==
    IF \/ table_name \in CreateReservedWords
       \/ ReservedName(table_name)
       \/ columns = <<>>
       \/ \E i \in 1..Len(columns) : columns[i] \in ReservedWords
       \/ Cardinality(Rng(columns)) < Len(columns)
      THEN [ok |-> FALSE, raises |-> "OperationalError", store |-> st]
      ELSE [ok |-> TRUE,
            store |-> WithTable(st, table_name, [columns |-> columns, rows |-> <<>>])]

\* create_table: executescript runs the DROP and then the CREATE; a CREATE that fails
\* leaves the table dropped.
create_table(db, st, table_name, columns) ==
    LET dropped == drop_sql(db, st, table_name)
    IN  IF ~dropped.ok THEN dropped ELSE create_sql(dropped.store, table_name, columns)

\* A cell of 100000 characters, under the 131072 the csv reader accepts.
LongText == "a text of 100000 characters"

\* The characters of a cell.
TextLen(cell) == IF cell = LongText THEN 100000 ELSE Len(cell)

RECURSIVE RecordBytes(_)
\* The most bytes a row takes in the table's pages: a character is at most four bytes
\* of UTF-8, its column's type code at most four more, and the row's key, lengths and
\* slot at most 24.
RecordBytes(row) ==
    IF row = <<>> THEN 24 ELSE 4 + 4 * TextLen(row[1]) + RecordBytes(Tail(row))

RECURSIVE BytesBetween(_, _, _)
\* The most bytes rows lo..hi take.
BytesBetween(rows, lo, hi) ==
    IF lo > hi THEN 0
    ELSE IF lo = hi THEN RecordBytes(rows[lo])
    ELSE BytesBetween(rows, lo, (lo + hi) \div 2)
         + BytesBetween(rows, (lo + hi) \div 2 + 1, hi)

\* The bytes of rows an insert always keeps in the page cache of its connection: a
\* quarter of SQLite's default of 2000 KiB, which the loader leaves alone, since
\* rows that fill their pages badly take up to twice their size and the cache
\* starts writing before it is full.
QuietBytes == 524288

\* The rows executemany inserts: all of them, or those before the first row whose
\* length is not that of the column list.
Inserted(columns, rows) ==
    LET bad == { i \in 1..Len(rows) : Len(rows[i]) # Len(columns) }
    IN  IF bad = {} THEN rows
        ELSE SubSeq(rows, 1, (CHOOSE i \in bad : \A j \in bad : i <= j) - 1)

\* Whether inserting the rows fills the page cache: SQLite then writes pages of the
\* open transaction to the database file, under the exclusive lock, which it keeps
\* until the transaction ends.  Rows of at most QuietBytes never do; for more, the
\* sizes of the rows, the pages the file already holds, its page size and its
\* journal mode decide, so that either can happen.
Spills(rows) ==
    IF BytesBetween(rows, 1, Len(rows)) <= QuietBytes THEN {FALSE} ELSE {TRUE, FALSE}

\* insert_rows: executemany binds each row's cells, as text, to the columns.  A row of
\* another length than the column list raises, and the with block of
\* load_csv_to_sqlite rolls back the rows inserted before it.  The store returned is
\* the one other connections see once the rows are committed; locks tells whether
\* the insert can leave the database file locked against them until then.
insert_rows(st, table_name, columns, rows) ==
    IF Inserted(columns, rows) # rows
      THEN [ok |-> FALSE, raises |-> "ProgrammingError", store |-> st,
            locks |-> Spills(Inserted(columns, rows))]
      ELSE [ok |-> TRUE,
            store |-> WithTable(st, table_name,
                        [columns |-> columns,
                         rows |-> [i \in 1..Len(rows) |->
                                     [j \in 1..Len(rows[i]) |-> T(rows[i][j])]]]),
            locks |-> Spills(rows)]

\* The part of load_csv_to_sqlite that reads the CSV file: the table name of the file's
\* stem, the columns of the header, the rows.  csv is [exists, stem, lines]: the file's
\* name without its suffix and the rows csv.reader yields, the header first.
read_csv(csv) ==
    LET table_name == validate_identifier(csv.stem)
        header == csv.lines[1]
    IN  IF ~table_name.ok THEN [ok |-> FALSE, raises |-> "ValueError"]
        ELSE IF ~csv.exists THEN [ok |-> FALSE, raises |-> "FileNotFoundError"]
        ELSE IF csv.lines = <<>> THEN [ok |-> FALSE, raises |-> "ValueError"]
        ELSE IF \E i \in 1..Len(header) : ~validate_identifier(header[i]).ok
          THEN [ok |-> FALSE, raises |-> "ValueError"]
        ELSE [ok |-> TRUE,
              table_name |-> table_name.value,
              columns |-> [i \in 1..Len(header) |-> validate_identifier(header[i]).value],
              rows |-> Tail(csv.lines)]

\* load_csv_to_sqlite(db_path, csv_path) run with no other access to the database in
\* between: what lies at db_path afterwards, and the exception raised ("" for none).
load_csv_to_sqlite(db, st, csv) ==
    LET job == read_csv(csv)
        opened == sqlite3_connect(db, st)
        created == create_table(opened.dbfile, opened.store, job.table_name, job.columns)
        inserted == insert_rows(created.store, job.table_name, job.columns, job.rows)
    IN  IF ~job.ok THEN [dbfile |-> db, store |-> st, raises |-> job.raises]
        ELSE IF ~opened.ok THEN [dbfile |-> db, store |-> st, raises |-> opened.raises]
        ELSE IF ~created.ok
          THEN [dbfile |-> opened.dbfile, store |-> created.store, raises |-> created.raises]
        ELSE IF ~inserted.ok
          THEN [dbfile |-> opened.dbfile, store |-> created.store, raises |-> inserted.raises]
        ELSE [dbfile |-> opened.dbfile, store |-> inserted.store, raises |-> ""]

\* main turns a ValueError of the load into SystemExit.
ExitOf(raises) == IF raises = "ValueError" THEN "SystemExit" ELSE raises

\* main: exits when the CSV file does not exist and on a ValueError of the load.
main(db, st, csv) ==
    IF ~csv.exists THEN [dbfile |-> db, store |-> st, raises |-> "SystemExit"]
    ELSE [load_csv_to_sqlite(db, st, csv) EXCEPT !.raises = ExitOf(@)]

----------------------------------------------------------------------------
(* Inputs *)

Zip1 == <<"0", "2", "1", "3", "8">>
Zip2 == <<"0", "3", "0", "6", "0">>
Zip0 == <<"0", "0", "0", "0", "0">>

ZipValues ==
    { Absent, JNull, JNum(2138),
      JStr(Zip1), JStr(Zip2), JStr(Zip0),
      JStr(<<"0", "2", "1">>),
      JStr(<<"0", "2", "1", "3", "8", "0">>),
      JStr(<<"+", "2", "1", "3", "8">>),
      JStr(<<" ", "2", "1", "3", "8">>),
      JStr(<<"0", "2", "1", "3", "a">>),
      JStr(<<"0", "2", "1", "3", "8", "\n">>),
      JStr(<<"U+0663", "U+0663", "U+0663", "U+0663", "U+0663">>) }

MeasureValues ==
    { Absent, JNull, JNum(7), JStr("Adult obesity"), JStr("adult obesity"),
      JStr("Unemployment"), JStr("Made up measure") }

CoffeeValues == { Absent, JStr("teapot"), JStr("coffee") }

\* The (coffee, zip, measure_name) fields of the request objects: every combination
\* of a coffee value with an absent, a valid and an invalid zip and measure; every zip
\* with a documented measure; every measure with a valid zip.
Fields ==
    (CoffeeValues \X {Absent, JStr(Zip1), JStr(<<"0", "2", "1">>)}
                  \X {Absent, JStr("Adult obesity"), JStr("Made up measure")})
    \cup ({Absent} \X ZipValues \X {JStr("Adult obesity"), JStr("Unemployment")})
    \cup ({Absent} \X {JStr(Zip1)} \X MeasureValues)

\* Request bodies: text that is no JSON, the JSON values that are no object, and objects.
Bodies ==
    { [t |-> x] : x \in {"invalid", "null", "arr", "num", "str", "bool"} }
    \cup { [t |-> "obj", coffee |-> f[1], zip |-> f[2], measure_name |-> f[3]] : f \in Fields }

\* A row of county_health_rankings, in the order of its columns; the columns the
\* query only passes through hold the same texts in every row.
Row(state, county, fipscode, measure, year, span, raw) ==
    <<T(state), T(county), T("25"), T(""), span, T(measure), T(""), T(""), T(""), T(raw),
      T(""), T(""), year, T(fipscode)>>

\* A row of zip_county, in the order of its columns.
Mapping(zip, county, abbr, code) == <<T(zip), T(county), T(abbr), T(code)>>

\* The column names of the two tables as the loader stores them.
CHR_HEADER == [k \in 1..Len(CHR_COLUMNS) |-> Chars[CHR_COLUMNS[k]]]
ZC_HEADER == <<Chars.zip, Chars.county, Chars.state_abbreviation, Chars.county_code>>

Y2009 == T(<<"2", "0", "0", "9">>)
Y2010 == T(<<"2", "0", "1", "0">>)
NoYear == T(<<>>)
Span08 == T(<<"2", "0", "0", "8">>)
Span0810 == T(<<"2", "0", "0", "8", "-", "1", "0">>)

\* Rows of county_health_rankings: one that a Middlesex mapping matches by code and by
\* name, one whose code cell is empty, one of a second county with the same sort key,
\* one whose county name differs from the mapping's and whose release year is empty,
\* one of another measure.
RowPool ==
    { Row("MA", "Middlesex", "25017", "Adult obesity", Y2010, Span08, "0.23"),
      Row("MA", "Middlesex", "", "Adult obesity", Y2009, Span0810, "0.22"),
      Row("MA", "Suffolk", "25025", "Adult obesity", Y2010, Span08, "0.21"),
      Row("MA", "Middlesex County", "25017", "Adult obesity", NoYear, Span08, "0.20"),
      Row("MA", "Middlesex", "25017", "Unemployment", Y2009, Span08, "0.05") }

\* Rows of zip_county: a border ZIP of two counties, and a ZIP mapped with an empty code.
MapPool ==
    { Mapping(Zip1, "Middlesex", "MA", "25017"),
      Mapping(Zip1, "Suffolk", "MA", "25025"),
      Mapping(Zip2, "Middlesex", "MA", "") }

SeqsUpTo(S, n) == UNION { [1..k -> S] : k \in 0..n }

\* The database the loader leaves after loading the two CSV files of these rows.
Loaded(c, z) ==
    [has |-> {CHR_TABLE, ZC_TABLE},
     chr |-> [columns |-> CHR_HEADER, rows |-> c],
     zc |-> [columns |-> ZC_HEADER, rows |-> z]]

\* Every store of at most MaxRows health rows and MaxMaps mappings, in any storage order.
Stores == { Loaded(c, z) : c \in SeqsUpTo(RowPool, MaxRows), z \in SeqsUpTo(MapPool, MaxMaps) }

DbFiles == {"missing", "present", "corrupt", "unopenable"}

QueryZips == {Zip1, Zip2}
QueryMeasures == {"Adult obesity", "Unemployment"}

\* A store whose records of one county and measure share the release year and differ
\* in the year span, the longer span stored first.
SpanStores ==
    { Loaded(<<Row("MA", "Middlesex", "25017", "Adult obesity", Y2010, Span0810, "0.22"),
               Row("MA", "Middlesex", "25017", "Adult obesity", Y2010, Span08, "0.23")>>,
             <<Mapping(Zip1, "Middlesex", "MA", "25017")>>) }

\* The stores the request handler is run against: the tables empty, and a store holding
\* rows of every kind.
ServedStores ==
    { Loaded(<<>>, <<>>),
      Loaded(<<Row("MA", "Middlesex", "25017", "Adult obesity", Y2010, Span08, "0.23"),
               Row("MA", "Suffolk", "25025", "Adult obesity", Y2010, Span08, "0.21"),
               Row("MA", "Middlesex", "", "Adult obesity", Y2009, Span0810, "0.22"),
               Row("MA", "Middlesex", "25017", "Unemployment", Y2009, Span08, "0.05")>>,
             <<Mapping(Zip1, "Middlesex", "MA", "25017"),
               Mapping(Zip1, "Suffolk", "MA", "25025"),
               Mapping(Zip2, "Middlesex", "MA", "")>>) }

\* The sequence, last element first.
Reversed(s) == [i \in 1..Len(s) |-> s[Len(s) + 1 - i]]

\* The stores a lookup is repeated against: those, and the same rows stored in the
\* reverse order.
RepeatStores ==
    ServedStores \cup { Loaded(Reversed(st.chr.rows), Reversed(st.zc.rows)) : st \in ServedStores }

\* The text of the cells of a stored row, as a CSV file holds them.
CsvRow(row) == [j \in 1..Len(row) |-> row[j].txt]

\* The CSV file loaded around the lookups of a query-engine run, the first file of
\* CsvFiles: the health rankings with the Suffolk row only, under a header as a
\* spreadsheet exports it.
QueryCsvFiles ==
    << [exists |-> TRUE, stem |-> CHR_TABLE,
        lines |-> << [k \in 1..Len(CHR_HEADER) |->
                        IF k = 1 THEN <<BOM, "S", "t", "a", "t", "e">> ELSE CHR_HEADER[k]],
                     CsvRow(Row("MA", "Suffolk", "25025", "Adult obesity", Y2010, Span08,
                                "0.21")) >>] >>

\* Rows of one long text, more than the page cache holds.
LongLines == [i \in 1..LongRows |-> <<LongText>>]

\* The CSV files loaded around a lookup and its repetition, the first files of
\* CsvFiles: that one, a file whose name is no identifier, and a table the query
\* does not name, of long texts, once with a last row that is too long.
RepeatCsvFiles ==
    QueryCsvFiles \o
    << [exists |-> TRUE, stem |-> <<"2", "0", "2", "0", "d", "a", "t", "a">>,
        lines |-> << ZC_HEADER >>],
       [exists |-> TRUE, stem |-> <<"n", "o", "t", "e", "s">>,
        lines |-> << <<<<"n", "o", "t", "e">>>> >> \o LongLines \o << <<"to", "do">> >>],
       [exists |-> TRUE, stem |-> <<"n", "o", "t", "e", "s">>,
        lines |-> << <<<<"n", "o", "t", "e">>>> >> \o LongLines] >>

\* The CSV files the loader is run on while requests are served: those, and the
\* mappings of one ZIP under an upper-case file name; a table the query does not name,
\* its column spelt with a form feed, the Kelvin sign and a no-break space; mappings
\* with a short row; mappings without the county_code column; a header naming a column
\* twice; a column and a table named by an SQL keyword; a table name SQLite reserves; a
\* file without a header; a file that is not there.
CsvFiles ==
    RepeatCsvFiles \o
    << [exists |-> TRUE, stem |-> <<"Z", "I", "P", "_", "C", "O", "U", "N", "T", "Y">>,
        lines |-> << ZC_HEADER, CsvRow(Mapping(Zip1, "Suffolk", "MA", "25025")) >>],
       [exists |-> TRUE, stem |-> <<"n", "o", "t", "e", "s">>,
        lines |-> << <<<<"\f", "U+212A", "e", "y", "U+00A0">>>>, <<"to do">> >>],
       [exists |-> TRUE, stem |-> ZC_TABLE,
        lines |-> << ZC_HEADER, CsvRow(Mapping(Zip1, "Middlesex", "MA", "25017")),
                     <<Zip2, "Middlesex">> >>],
       [exists |-> TRUE, stem |-> ZC_TABLE,
        lines |-> << SubSeq(ZC_HEADER, 1, 3), <<Zip1, "Middlesex", "MA">> >>],
       [exists |-> TRUE, stem |-> ZC_TABLE,
        lines |-> << <<Chars.zip, <<" ", "Z", "i", "p">>>>, <<Zip1, Zip1>> >>],
       [exists |-> TRUE, stem |-> ZC_TABLE,
        lines |-> << <<Chars.zip, <<"o", "r", "d", "e", "r">>>>, <<Zip1, "1">> >>],
       [exists |-> TRUE, stem |-> <<"g", "r", "o", "u", "p">>,
        lines |-> << <<<<"n", "o", "t", "e">>>>, <<"to do">> >>],
       [exists |-> TRUE, stem |-> <<"s", "q", "l", "i", "t", "e", "_", "n", "o", "t", "e", "s">>,
        lines |-> << <<<<"n", "o", "t", "e">>>>, <<"to do">> >>],
       [exists |-> TRUE, stem |-> ZC_TABLE, lines |-> <<>>],
       [exists |-> FALSE, stem |-> ZC_TABLE, lines |-> <<>>] >>

----------------------------------------------------------------------------
(* The request handler county_data, statement by statement *)

NoResponse == [status |-> 0, body |-> JNull]
NoResult == [ok |-> FALSE, exc |-> NoExc]
NoJob == [table_name |-> <<>>, columns |-> <<>>, rows |-> <<>>]
NotSeen == [db |-> "none", fails |-> FALSE]

\* No request is being served.
NoRequest ==
    /\ pc = "idle"
    /\ body = [t |-> "invalid"]
    /\ payload = None
    /\ validated = None
    /\ records = <<>>
    /\ conn = 0
    /\ exc = NoExc
    /\ response = NoResponse
    /\ nOpen = 0
    /\ nExec = 0
    /\ seen = NotSeen

\* No run of the loader has begun and no lookup of a query-engine run was made.
Quiet ==
    /\ openConns = {}
    /\ served = 0
    /\ loads = 0
    /\ lpc = "idle"
    /\ ljob = NoJob
    /\ lexit = "none"
    /\ locked = FALSE
    /\ qphase = "none"
    /\ qkey = <<Zip1, "Adult obesity">>
    /\ qfirst = NoResult
    /\ qsecond = NoResult
    /\ qchanged = FALSE
    /\ qlock = "no"

Init ==
    /\ dbfile \in DbFiles
    /\ store \in (IF dbfile = "present" THEN ServedStores ELSE {EmptyStore})
    /\ NoRequest
    /\ Quiet

Raise(e) == exc' = e /\ pc' = "raise"

\* A request arrives at POST /county_data.
Receive(b) ==
    /\ pc = "idle"
    /\ served < MaxRequests
    /\ served' = served + 1
    /\ body' = b
    /\ pc' = "get_json"
    /\ UNCHANGED <<lvars, payload, validated, records, conn, openConns, exc, response, nOpen,
                   nExec, seen, qvars>>

\* payload = request.get_json(silent=True); if payload is None: raise BadRequest
ParseBody ==
    /\ pc = "get_json"
    /\ payload' = get_json(body)
    /\ IF get_json(body) = None
         THEN Raise(BadRequest(MsgNotJson))
         ELSE pc' = "teapot" /\ exc' = exc
    /\ UNCHANGED <<lvars, body, validated, records, conn, openConns, response, nOpen, nExec,
                   served, seen, qvars>>

\* A handler whose teapot test comes only after the lookup: nothing stops here.
TeapotBranchAfterLookup ==
    /\ pc = "teapot"
    /\ IF payload.t # "obj"
         THEN Raise(AttributeError(PyTypeName(payload)))
         ELSE pc' = "validate" /\ exc' = exc
    /\ UNCHANGED <<lvars, body, payload, validated, records, conn, openConns, response,
                   nOpen, nExec, served, seen, qvars>>

\* if payload.get("coffee") == "teapot": return the 418 response.  A payload that is
\* no dict has no attribute get.
TeapotBranch ==
    /\ pc = "teapot"
    /\ IF payload.t # "obj"
         THEN Raise(AttributeError(PyTypeName(payload))) /\ response' = response
       ELSE IF DictGet(payload.coffee) = JStr("teapot")
         THEN response' = TeapotResponse /\ pc' = "done" /\ exc' = exc
       ELSE pc' = "validate" /\ exc' = exc /\ response' = response
    /\ UNCHANGED <<lvars, body, payload, validated, records, conn, openConns, nOpen, nExec,
                   served, seen, qvars>>

\* validated = validate_payload(payload)
Validate ==
    /\ pc = "validate"
    /\ LET v == validate_payload(payload)
       IN  IF v.ok
             THEN validated' = v /\ pc' = "connect" /\ exc' = exc
             ELSE validated' = validated /\ Raise(v.exc)
    /\ UNCHANGED <<lvars, body, payload, records, conn, openConns, response, nOpen, nExec,
                   served, seen, qvars>>

\* lookup_county_data: with get_connection() as connection.  seen.db keeps what lay at
\* DB_PATH when get_connection looked.
Connect ==
    /\ pc = "connect"
    /\ nOpen' = nOpen + 1
    /\ seen' = [seen EXCEPT !.db = dbfile]
    /\ IF get_connection.ok
         THEN conn' = served /\ openConns' = openConns \cup {served}
              /\ pc' = "execute" /\ exc' = exc
         ELSE conn' = conn /\ openConns' = openConns /\ Raise(get_connection.exc)
    /\ UNCHANGED <<lvars, body, payload, validated, records, response, nExec, served, qvars>>

\* rows = connection.execute(query, ...).fetchall(), then the with block's exit.
\* seen.fails keeps whether the database was one the query cannot run on or read.
Execute ==
    /\ pc = "execute"
    /\ nExec' = nExec + 1
    /\ seen' = [seen EXCEPT !.fails = (dbfile = "corrupt" \/ locked
                                        \/ PrepareError(store) # <<>>)]
    /\ openConns' = ConnectionExit(openConns, conn)
    /\ LET r == execute_fetchall(validated.zip, validated.measure_name)
       IN  IF r.ok
             THEN records' = r.rows /\ pc' = "return" /\ exc' = exc
             ELSE records' = records /\ Raise(r.exc)
    /\ UNCHANGED <<lvars, body, payload, validated, conn, response, nOpen, served, qvars>>

\* return [dict(row) for row in rows]: the frame of lookup_county_data goes, and with it
\* the last reference to the connection.  A reference-counting runtime closes the
\* connection at once; any other leaves it open until its collector runs.
ReturnRows ==
    /\ pc = "return"
    /\ conn' = 0
    /\ \/ openConns' = openConns \ {conn}
       \/ openConns' = openConns
    /\ pc' = "respond"
    /\ UNCHANGED <<lvars, body, payload, validated, records, exc, response, nOpen, nExec,
                   served, seen, qvars>>

\* if not records: raise NotFound; return jsonify(records)
Respond ==
    /\ pc = "respond"
    /\ IF records = <<>>
         THEN Raise(NotFound(MsgNoMatch)) /\ response' = response
         ELSE response' = [status |-> 200, body |-> JArr(records)] /\ pc' = "done" /\ exc' = exc
    /\ UNCHANGED <<lvars, body, payload, validated, records, conn, openConns, nOpen, nExec,
                   served, seen, qvars>>

\* The registered error handler turns the exception into the response.
HandleException ==
    /\ pc = "raise"
    /\ response' = HandleError(exc)
    /\ pc' = "done"
    /\ UNCHANGED <<lvars, body, payload, validated, records, conn, openConns, exc, nOpen,
                   nExec, served, seen, qvars>>

\* The response is sent and the request context popped: the request, its locals, the
\* exception and its traceback, which referenced the frame of lookup_county_data, are
\* dropped.
Teardown ==
    /\ pc = "done"
    /\ pc' = "idle"
    /\ body' = [t |-> "invalid"]
    /\ payload' = None
    /\ validated' = None
    /\ records' = <<>>
    /\ conn' = 0
    /\ exc' = NoExc
    /\ response' = NoResponse
    /\ nOpen' = 0
    /\ nExec' = 0
    /\ seen' = NotSeen
    /\ UNCHANGED <<lvars, openConns, served, qvars>>

\* The runtime reclaims a connection nothing references any more, which closes it.
Finalize(c) ==
    /\ c \in openConns
    /\ c # conn
    /\ openConns' = openConns \ {c}
    /\ UNCHANGED <<lvars, pc, body, payload, validated, records, conn, exc, response, nOpen,
                   nExec, served, seen, qvars>>

----------------------------------------------------------------------------
(* A run of the loader, python csv_to_sqlite.py data.db file.csv, in another    *)
(* process: statement by statement, since each statement of create_table's      *)
(* script is committed as it runs and the rows are committed at the end.  A     *)
(* lookup made meanwhile reads the database as the last commit left it, unless  *)
(* the loader's transaction holds the file locked.                              *)

\* The run ends: main returns 0 ("") or the exception leaves it.
Exit(status) == lpc' = "idle" /\ ljob' = NoJob /\ lexit' = status

\* What a step of the loader leaves alone.  qchanged keeps whether the file or the
\* database is no longer what the first lookup of a query-engine run read, qlock
\* whether the loader held the lock while a lookup had its connection, or between the
\* two lookups.
LoaderFrame ==
    /\ qchanged' = (qchanged \/ (qphase \in {"first", "recalling", "second"}
                                  /\ (dbfile' # dbfile \/ store' # store)))
    /\ qlock' = IF qphase \in {"calling", "recalling"} /\ locked' THEN "at"
                ELSE IF qphase = "first" /\ qlock = "no" /\ locked' THEN "between"
                ELSE qlock
    /\ UNCHANGED <<pc, body, payload, validated, records, conn, openConns, exc, response,
                   nOpen, nExec, served, seen, qphase, qkey, qfirst, qsecond>>

\* What read_csv makes of each file of CsvFiles.
CsvJobs == [i \in 1..Len(CsvFiles) |-> read_csv(CsvFiles[i])]

\* main up to the with statement of load_csv_to_sqlite, on the i-th file of CsvFiles:
\* the CSV file is read, then sqlite3.connect opens the database, creating it where no
\* file is.
LoadStart(i) ==
    /\ lpc = "idle"
    /\ loads < MaxLoads
    /\ loads' = loads + 1
    /\ \E opened \in {sqlite3_connect(dbfile, store)} :
          IF ~CsvFiles[i].exists
            THEN Exit("SystemExit") /\ UNCHANGED <<dbfile, store>>
          ELSE IF ~CsvJobs[i].ok
            THEN Exit(ExitOf(CsvJobs[i].raises)) /\ UNCHANGED <<dbfile, store>>
          ELSE IF ~opened.ok
            THEN Exit(opened.raises) /\ UNCHANGED <<dbfile, store>>
          ELSE /\ dbfile' = opened.dbfile
               /\ store' = opened.store
               /\ lpc' = "drop"
               /\ ljob' = [table_name |-> CsvJobs[i].table_name,
                           columns |-> CsvJobs[i].columns, rows |-> CsvJobs[i].rows]
               /\ lexit' = "none"
    /\ UNCHANGED locked
    /\ LoaderFrame

\* create_table: DROP TABLE IF EXISTS
LoadDrop ==
    /\ lpc = "drop"
    /\ \E dropped \in {drop_sql(dbfile, store, ljob.table_name)} :
          IF dropped.ok
            THEN store' = dropped.store /\ lpc' = "create" /\ UNCHANGED <<ljob, lexit>>
            ELSE Exit(dropped.raises) /\ store' = store
    /\ UNCHANGED <<dbfile, loads, locked>>
    /\ LoaderFrame

\* create_table: CREATE TABLE
LoadCreate ==
    /\ lpc = "create"
    /\ \E created \in {create_sql(store, ljob.table_name, ljob.columns)} :
          IF created.ok
            THEN store' = created.store /\ lpc' = "insert" /\ UNCHANGED <<ljob, lexit>>
            ELSE Exit(created.raises) /\ store' = store
    /\ UNCHANGED <<dbfile, loads, locked>>
    /\ LoaderFrame

\* insert_rows: the rows are inserted in a transaction no other connection sees,
\* which takes the exclusive lock on the file when the rows fill the page cache; a
\* row that does not fit raises, the rows before it inserted.
LoadInsert ==
    /\ lpc = "insert"
    /\ \E inserted \in {insert_rows(store, ljob.table_name, ljob.columns, ljob.rows)} :
          /\ lpc' = IF inserted.ok THEN "commit" ELSE "rollback"
          /\ locked' \in inserted.locks
    /\ UNCHANGED <<dbfile, store, loads, ljob, lexit>>
    /\ LoaderFrame

\* connection.commit(): the rows become visible and the lock is released.
LoadCommit ==
    /\ lpc = "commit"
    /\ store' = insert_rows(store, ljob.table_name, ljob.columns, ljob.rows).store
    /\ locked' = FALSE
    /\ Exit("")
    /\ UNCHANGED <<dbfile, loads>>
    /\ LoaderFrame

\* The exception of insert_rows leaves the with block of load_csv_to_sqlite, which
\* rolls the transaction back and releases the lock, and then main.
LoadRollback ==
    /\ lpc = "rollback"
    /\ locked' = FALSE
    /\ Exit("ProgrammingError")
    /\ UNCHANGED <<dbfile, store, loads>>
    /\ LoaderFrame

Next ==
    \/ \E b \in Bodies : Receive(b)
    \/ ParseBody
    \/ TeapotBranch
    \/ Validate
    \/ Connect
    \/ Execute
    \/ ReturnRows
    \/ Respond
    \/ HandleException
    \/ Teardown
    \/ \E i \in 1..Len(CsvFiles) : LoadStart(i)
    \/ LoadDrop
    \/ LoadCreate
    \/ LoadInsert
    \/ LoadCommit
    \/ LoadRollback
    \/ \E c \in openConns : Finalize(c)

Spec == Init /\ [][Next]_vars

----------------------------------------------------------------------------
(* The query engine alone: lookup_county_data called on a store, then called    *)
(* again, while the loader runs on the first file of CsvFiles, whose rows fit   *)
(* the page cache.  A call is two steps, get_connection and the query, and the  *)
(* loader may run between them: a file that is missing when get_connection      *)
(* looks is reported whatever comes after, and the query returns what the       *)
(* database holds when it runs.                                                 *)

InitQuery ==
    /\ dbfile \in DbFiles
    /\ store \in (IF dbfile = "present" THEN Stores \cup SpanStores ELSE {EmptyStore})
    /\ NoRequest
    /\ Quiet

\* with get_connection() as connection, in the call numbered id: the call ends here
\* when get_connection raises.
LookupConnect(id) ==
    /\ nOpen' = nOpen + 1
    /\ openConns' = IF get_connection.ok THEN openConns \cup {id} ELSE openConns
    /\ qlock' = IF get_connection.ok /\ locked THEN "at" ELSE qlock
    /\ UNCHANGED <<lvars, pc, body, payload, validated, records, conn, exc, response, nExec,
                   served, seen, qchanged>>

\* connection.execute(...).fetchall(), the with block's exit and the return or the
\* exception, in the call numbered id: the connection is left to the runtime, as in
\* ReturnRows (an exception's traceback keeps it longer).
LookupExecute(id) ==
    /\ nExec' = nExec + 1
    /\ \/ openConns' = ConnectionExit(openConns, id) \ {id}
       \/ openConns' = ConnectionExit(openConns, id)
    /\ UNCHANGED <<lvars, pc, body, payload, validated, records, conn, exc, response, nOpen,
                   served, seen, qkey, qchanged, qlock>>

\* The first lookup enters get_connection.
FirstConnect(zip, measure) ==
    /\ qphase = "none"
    /\ qkey' = <<zip, measure>>
    /\ LookupConnect(1)
    /\ IF get_connection.ok
         THEN qphase' = "calling" /\ qfirst' = qfirst
         ELSE qphase' = "first" /\ qfirst' = get_connection
    /\ UNCHANGED qsecond

\* The first lookup runs its query.
FirstExecute ==
    /\ qphase = "calling"
    /\ qfirst' = execute_fetchall(qkey[1], qkey[2])
    /\ LookupExecute(1)
    /\ qphase' = "first"
    /\ UNCHANGED qsecond

\* The lookup is called again with the same arguments.
RepeatConnect ==
    /\ qphase = "first"
    /\ LookupConnect(2)
    /\ IF get_connection.ok
         THEN qphase' = "recalling" /\ qsecond' = qsecond
         ELSE qphase' = "second" /\ qsecond' = get_connection
    /\ UNCHANGED <<qkey, qfirst>>

\* The repeated lookup runs its query.
RepeatExecute ==
    /\ qphase = "recalling"
    /\ qsecond' = execute_fetchall(qkey[1], qkey[2])
    /\ LookupExecute(2)
    /\ qphase' = "second"
    /\ UNCHANGED qfirst

NextQuery ==
    \/ \E z \in QueryZips, m \in QueryMeasures : FirstConnect(z, m)
    \/ FirstExecute
    \/ RepeatConnect
    \/ RepeatExecute
    \/ \E i \in 1..Len(QueryCsvFiles) : LoadStart(i)
    \/ LoadDrop
    \/ LoadCreate
    \/ LoadInsert
    \/ LoadCommit
    \/ \E c \in openConns : Finalize(c)

SpecQuery == InitQuery /\ [][NextQuery]_vars

----------------------------------------------------------------------------
(* A lookup and its repetition, while the loader runs on one of the first files  *)
(* of CsvFiles, some of them large enough for the loader to lock the database.  *)

InitRepeat ==
    /\ dbfile \in DbFiles
    /\ store \in (IF dbfile = "present" THEN RepeatStores ELSE {EmptyStore})
    /\ NoRequest
    /\ Quiet

NextRepeat ==
    \/ \E z \in QueryZips, m \in QueryMeasures : FirstConnect(z, m)
    \/ FirstExecute
    \/ RepeatConnect
    \/ RepeatExecute
    \/ \E i \in 1..Len(RepeatCsvFiles) : LoadStart(i)
    \/ LoadDrop
    \/ LoadCreate
    \/ LoadInsert
    \/ LoadCommit
    \/ LoadRollback
    \/ \E c \in openConns : Finalize(c)

SpecRepeat == InitRepeat /\ [][NextRepeat]_vars

----------------------------------------------------------------------------
(* Properties *)

ErrorText(r) == r.body.o.error.s

Rejections == {MsgNotJson, MsgTeapot, MsgRequired, MsgZip, MsgMeasureStr, MsgMeasure}

\* C1: the store is opened and queried only for a request whose body parsed to an
\* object without the teapot trigger and passed validate_payload; a request answered
\* with a non-JSON, teapot or validation rejection made no call of get_connection
\* and executed no query.
C1_StoreOnlyAfterValidation ==
    /\ (nOpen > 0 \/ nExec > 0 \/ pc \in {"connect", "execute", "return", "respond"}) =>
          /\ get_json(body) # None
          /\ body.t = "obj"
          /\ DictGet(body.coffee) # JStr("teapot")
          /\ validate_payload(body).ok
    /\ (pc = "done" /\ response.body.t = "obj" /\ ErrorText(response) \in Rejections) =>
          (nOpen = 0 /\ nExec = 0)

\* A request rejected for its measure name, after an earlier request, that never
\* touched the store.
C1_Witness ==
    /\ pc = "done" /\ served = 2
    /\ response.status = 400 /\ ErrorText(response) = MsgMeasure
    /\ nOpen = 0 /\ nExec = 0

\* C2: every request whose body is not a JSON object (no JSON, null, an array, a
\* scalar) is answered 400 with the body-must-be-JSON error.
C2_NonObjectBodyIs400 ==
    (pc = "done" /\ body.t # "obj") =>
        (response.status = 400 /\ response.body = ErrorBody(MsgNotJson))

IsFiveAsciiDigits(s) == Len(s) = 5 /\ \A i \in 1..Len(s) : s[i] \in AsciiDigits

\* C3: validate_payload accepts a zip if and only if it is a string of exactly five
\* ASCII digits; a zip that is present and is anything else is rejected with the
\* 'zip must be a 5-digit string' error.
C3_ZipAcceptedIffFiveAsciiDigits ==
    /\ (pc = "connect") => (body.zip.t = "str" /\ IsFiveAsciiDigits(body.zip.s))
    /\ (/\ pc = "raise" /\ nOpen = 0 /\ body.t = "obj"
        /\ DictGet(body.coffee) # JStr("teapot")
        /\ DictGet(body.zip) # None /\ DictGet(body.measure_name) # None
        /\ ~(body.zip.t = "str" /\ IsFiveAsciiDigits(body.zip.s)))
          => exc = BadRequest(MsgZip)

\* The lookup of the request met a store the query cannot run on: no file, a file that
\* cannot be opened or is no database, a database a load keeps locked, a database
\* lacking a table or a column of the query.
StoreFails == seen.db # "present" \/ seen.fails

\* C4: with no file at the store's path, a validated lookup is answered with the
\* database-not-found error, which differs from the no-matching-records one; and no
\* store failure (missing, unopenable, corrupt, without a table or a column) is
\* answered with 200, with a list of records or with the no-matching-records error.
C4_StoreFailureDistinguishable ==
    (pc = "done" /\ nOpen > 0) =>
        /\ (seen.db = "missing") =>
              (response.status = 404 /\ response.body = ErrorBody(MsgDbNotFound))
        /\ StoreFails =>
              /\ response.status # 200
              /\ response.body.t = "obj"
              /\ response.body # ErrorBody(MsgNoMatch)

\* A validated request whose lookup found no file at the store's path, answered.
C4_Witness ==
    /\ pc = "done" /\ nOpen = 1 /\ seen.db = "missing"
    /\ response.status = 404 /\ response.body = ErrorBody(MsgDbNotFound)

\* A message that carries the store's path or a message of the sqlite3 driver.
Leaks(msg) == \E i \in 1..Len(msg) : msg[i] = DB_PATH \/ msg[i] \in DriverMessages

\* C5: no error response contains the store's filesystem path, the query text or a
\* message produced by the store driver.
C5_NoInternalsInErrors ==
    (pc = "done" /\ response.status # 200) => ~Leaks(ErrorText(response))

\* C6: every connection lookup_county_data acquires is closed before it returns or
\* raises: outside the with block no connection opened by a lookup is open.
C6_ConnectionReleased ==
    (pc # "execute") => (openConns = {})

\* C7: every error response is a JSON object with exactly one field, error, whose
\* value is a string.
C7_ErrorBodyShape ==
    (pc = "done" /\ response.status # 200) =>
        /\ response.body.t = "obj"
        /\ DOMAIN response.body.o = {"error"}
        /\ response.body.o.error.t = "str"

\* An error response produced by the catch-all handler.
C7_Witness ==
    pc = "done" /\ response.status = 500 /\ ~exc.http

\* The records of the measure that some mapping of the zip matches by code (the
\* record's code not NULL) or by the (county, state abbreviation) pair.
MatchedRecords(st, zip, measure) ==
    { x \in { Project(st.chr, r) : r \in Rng(st.chr.rows) } :
        /\ x.measure_name = T(measure)
        /\ \E m \in { ZcRow(st.zc, r) : r \in Rng(st.zc.rows) } :
              /\ m.zip = T(zip)
              /\ \/ (~x.fipscode.isnull /\ x.fipscode = m.county_code)
                 \/ (x.county = m.county /\ x.state = m.state_abbreviation) }

\* C8: a lookup returns exactly the distinct records of the measure matched through
\* some mapping of the zip, by code or by name, each exactly once.
C8_ExactlyTheMatchedRecordsOnce ==
    (qphase # "none" /\ qfirst.ok /\ ~qchanged) =>
        /\ Rng(qfirst.rows) = MatchedRecords(store, qkey[1], qkey[2])
        /\ Cardinality(Rng(qfirst.rows)) = Len(qfirst.rows)

\* A lookup whose join found some record more than once (by code and by name, through
\* two mappings, or stored twice) and that returned two records or more.
C8_Witness ==
    /\ qphase = "first" /\ qfirst.ok /\ ~qchanged
    /\ Len(qfirst.rows) >= 2
    /\ Len(JoinRows(store, qkey[1], qkey[2])) > Len(qfirst.rows)

\* C9 as stated: a lookup repeated against the unchanged store (no load has changed the
\* file or a table since the first lookup returned) returns the same sequence in the
\* same order, also when returned records share a sort key.
C9_RepeatedLookupIdentical ==
    (qphase = "second" /\ ~qchanged) => (qsecond = qfirst)

\* C9, amended: a lookup repeated against the unchanged store returns what the first
\* one returned, in the same order, also when returned records share a sort key,
\* provided no load held the database locked while either lookup had its connection.
C9_RepeatedLookupIdenticalUnlocked ==
    (qphase = "second" /\ ~qchanged /\ qlock # "at") => (qsecond = qfirst)

\* A repeated lookup that returned two records of the same (release year, year span)
\* from the store the first one read, after a load took the lock and released it
\* between the two, while the first lookup's connection is still open.
C9_Witness ==
    /\ qphase = "second" /\ qsecond.ok
    /\ ~qchanged
    /\ qlock = "between"
    /\ ~locked
    /\ openConns # {}
    /\ \E i, j \in 1..Len(qsecond.rows) :
          /\ i < j
          /\ ~KeyLess(qsecond.rows[i], qsecond.rows[j])
          /\ ~KeyLess(qsecond.rows[j], qsecond.rows[i])

\* C10: the returned sequence ascends by (data_release_year, year_span): no record
\* is followed by one whose key is smaller.
C10_ResultSortedByKey ==
    (qphase # "none" /\ qfirst.ok) =>
        \A i \in 1..(Len(qfirst.rows) - 1) : ~KeyLess(qfirst.rows[i + 1], qfirst.rows[i])

\* A lookup whose records are stored in another order than the one returned.
C10_Witness ==
    /\ qphase = "first" /\ qfirst.ok /\ ~qchanged
    /\ Len(qfirst.rows) >= 2
    /\ qfirst.rows # Distinct(JoinRows(store, qkey[1], qkey[2]))

====
